---- MODULE Spec2Model ----
(***************************************************************************)
(* A model of the answer-page backend (src/app1.py): the content cache,   *)
(* the ranking engine, the answer cache (memo), the page store and the     *)
(* compose orchestrator, with the view and download routes.                *)
(*                                                                         *)
(* Time is the integer clock `now`; one unit stands for twelve hours, so   *)
(* the answer TTL (12 h) is 1 unit and the page TTL (24 h) is 2 units.     *)
(* The content-cache TTL (5 min) is below the unit and is modelled as the  *)
(* smallest positive span, 1.  A handler runs in far less than one unit:   *)
(* the clock readings of one handler run are one value of `now`.           *)
(* Strings that the code inspects character by character (questions and    *)
(* the fields of the memo key) are sequences of one-character strings.     *)
(***************************************************************************)
EXTENDS Integers, Sequences, FiniteSets, TLC

VARIABLES now, world, POSTS_CACHE, PAGES_CACHE, MEDIA_CACHE, PAGES, ANSWER_CACHE,
          last, issued, pc, loc, util

vars == <<now, world, POSTS_CACHE, PAGES_CACHE, MEDIA_CACHE, PAGES, ANSWER_CACHE,
          last, issued, pc, loc, util>>

----------------------------------------------------------------------------
(* Bounds of the model *)

MaxTime == 3
NumIds == 2

(* Program constants (scaled to the clock unit, see above) *)

TTL == 1
ANSWER_TTL_SEC == 1
PAGES_TTL_SEC == 2
FINAL_DOCS == 6
RERANK_THRESHOLD == 20
DEFAULT_TOP_SCORE == 100
EXCERPT_LEN == 1800
MAX_IMAGES == 3

TMP == 0
IDS == 1..NumIds

----------------------------------------------------------------------------
(* Sequence helpers *)

RECURSIVE SeqFilterOut(_, _)
SeqFilterOut(s, x) ==
  IF s = <<>> THEN <<>>
  ELSE IF Head(s) = x THEN SeqFilterOut(Tail(s), x)
       ELSE <<Head(s)>> \o SeqFilterOut(Tail(s), x)

Take(s, n) == SubSeq(s, 1, IF n < Len(s) THEN n ELSE Len(s))

Range(s) == {s[i] : i \in 1..Len(s)}

RECURSIVE Count(_, _)
Count(s, x) ==
  IF s = <<>> THEN 0
  ELSE (IF Head(s) = x THEN 1 ELSE 0) + Count(Tail(s), x)

----------------------------------------------------------------------------
(* String functions used by _cache_key: str.strip, str.lower, re.sub *)

Lower(c) == IF c = "A" THEN "a" ELSE IF c = "B" THEN "b" ELSE c

lower(s) == [i \in 1..Len(s) |-> Lower(s[i])]

(* the characters \s matches and str.strip removes, of those in use *)
Whitespace == {" ", "\n"}

RECURSIVE lstrip(_)
lstrip(s) == IF s # <<>> /\ Head(s) \in Whitespace THEN lstrip(Tail(s)) ELSE s

RECURSIVE rstrip(_)
rstrip(s) ==
  IF s # <<>> /\ s[Len(s)] \in Whitespace THEN rstrip(SubSeq(s, 1, Len(s) - 1)) ELSE s

strip(s) == rstrip(lstrip(s))

(* re.sub(r"\s+", " ", s): every run of whitespace becomes one space *)
RECURSIVE collapse_ws(_)
collapse_ws(s) ==
  IF s = <<>> THEN <<>>
  ELSE IF Head(s) \in Whitespace
       THEN <<" ">> \o collapse_ws(lstrip(Tail(s)))
       ELSE <<Head(s)>> \o collapse_ws(Tail(s))

(* a variant that forgets to lower-case *)
normalize_question_keeps_case(q) == collapse_ws(strip(q))

normalize_question(q) == collapse_ws(lower(strip(q)))

BoolStr(b) == IF b THEN <<"T">> ELSE <<"F">>

(* f"{norm}|{layout}|{include_citations}|{brand_class}|{primary}"; the    *)
(* truncated SHA-256 of this string is taken to be collision-free, so the  *)
(* key is represented by the hashed string.                                *)
cache_key(question, layout, include_citations, brand_class, primary) ==
  normalize_question(question) \o <<"|">> \o layout \o <<"|">>
    \o BoolStr(include_citations) \o <<"|">> \o brand_class \o <<"|">> \o primary

(* re.findall(r"[a-z0-9]+", text.lower()): the maximal runs of characters  *)
(* other than the space, as a sequence of words                            *)
RECURSIVE SplitWords(_, _)
SplitWords(s, cur) ==
  IF s = <<>> THEN (IF cur = <<>> THEN <<>> ELSE <<cur>>)
  ELSE IF Head(s) = " "
       THEN (IF cur = <<>> THEN <<>> ELSE <<cur>>) \o SplitWords(Tail(s), <<>>)
       ELSE SplitWords(Tail(s), Append(cur, Head(s)))

tok(text) == SplitWords(lower(text), <<>>)

(* str.count(t): the non-overlapping occurrences of t in text *)
RECURSIVE StrCount(_, _)
StrCount(text, t) ==
  IF t = <<>> \/ Len(text) < Len(t) THEN 0
  ELSE IF SubSeq(text, 1, Len(t)) = t
       THEN 1 + StrCount(SubSeq(text, Len(t) + 1, Len(text)), t)
       ELSE StrCount(Tail(text), t)

(* re.sub(r"<[^>]+>", "", html).strip() *)
RECURSIVE DropTags(_)
DropTags(s) ==
  IF s = <<>> THEN <<>>
  ELSE IF Head(s) = "<"
            /\ \E j \in 3..Len(s) : s[j] = ">" /\ \A i \in 2..(j - 1) : s[i] # ">"
       THEN LET j == CHOOSE k \in 3..Len(s) :
                        s[k] = ">" /\ \A i \in 2..(k - 1) : s[i] # ">"
            IN  DropTags(SubSeq(s, j + 1, Len(s)))
       ELSE <<Head(s)>> \o DropTags(Tail(s))

strip_html(html) == strip(DropTags(html))

Max(a, b) == IF a > b THEN a ELSE b
Min(a, b) == IF a < b THEN a ELSE b

(* chunk_text, with max_chars and overlap scaled down *)
MAX_CHARS == 2
OVERLAP == 1

(* re.sub(r"\s+\n", "\n", text): in a run of whitespace, what stands up to *)
(* its last newline becomes one newline, when that is two characters or    *)
(* more                                                                    *)
RECURSIVE squeeze_before_newline(_)
squeeze_before_newline(text) ==
  IF text = <<>> THEN <<>>
  ELSE IF Head(text) \in Whitespace
       THEN LET r == Len(text) - Len(lstrip(text))
                L == Max(0, CHOOSE k \in 0..r :
                              /\ k > 0 => text[k] = "\n"
                              /\ \A j \in (k + 1)..r : text[j] # "\n")
                rest == squeeze_before_newline(SubSeq(text, r + 1, Len(text)))
            IN  IF L >= 2 THEN <<"\n">> \o SubSeq(text, L + 1, r) \o rest
                ELSE SubSeq(text, 1, r) \o rest
       ELSE <<Head(text)>> \o squeeze_before_newline(Tail(text))

RECURSIVE ChunkFrom(_, _, _, _)
ChunkFrom(text, i, max_chars, overlap) ==
  IF i >= Len(text) THEN <<>>
  ELSE LET end   == Min(i + max_chars, Len(text))
           chunk == strip(SubSeq(text, i + 1, end))
           next  == Max(end - overlap, end)
       IN  (IF chunk # <<>> THEN <<chunk>> ELSE <<>>)
             \o ChunkFrom(text, next, max_chars, overlap)

chunk_text(text, max_chars, overlap) ==
  ChunkFrom(squeeze_before_newline(text), 0, max_chars, overlap)

(* the windows text[i:end] the loop of chunk_text cuts from a text of n    *)
(* characters, in order, as the pairs of i and end                         *)
RECURSIVE WindowsFrom(_, _, _, _)
WindowsFrom(n, i, max_chars, overlap) ==
  IF i >= n THEN <<>>
  ELSE LET end == Min(i + max_chars, n)
       IN  <<[i |-> i, end |-> end]>>
             \o WindowsFrom(n, Max(end - overlap, end), max_chars, overlap)

chunk_windows(text, max_chars, overlap) ==
  WindowsFrom(Len(squeeze_before_newline(text)), 0, max_chars, overlap)

----------------------------------------------------------------------------
(* The content source: what a request for one page of a partition answers *)

Post1 == [id |-> 1, title |-> <<"T1">>, link |-> <<"u1">>,
          content |-> <<"<", "p", ">", "a", "b", "c">>]
Page2 == [id |-> 2, title |-> <<"<", "b", ">", "T2">>, link |-> <<"u2">>,
          content |-> <<"b", " ">>]

Items(xs) == [kind |-> "items", items |-> xs]
HttpError == [kind |-> "error", items |-> <<>>]
InvalidPage == [kind |-> "invalid_page", items |-> <<>>]

PER_PAGE == 1
MAX_PAGES == 2

(* the answers of the source to the requests page = 1, 2, ... of a refresh *)
PostScripts == { <<Items(<<Post1>>), Items(<<>>)>>,
                 <<Items(<<>>), Items(<<>>)>>,
                 <<HttpError, HttpError>> }
PageScripts == { <<Items(<<Page2>>), InvalidPage>>,
                 <<HttpError, HttpError>> }

DocChunks(p) ==
  LET chunks == chunk_text(strip_html(p.content), MAX_CHARS, OVERLAP)
  IN  [i \in 1..Len(chunks) |->
         [post_id |-> p.id,
          title |-> strip_html(IF p.title # <<>> THEN p.title ELSE <<"Untitled">>),
          url |-> p.link, text_chunk |-> chunks[i]]]

RECURSIVE FlatMap(_, _)
FlatMap(F(_), items) ==
  IF items = <<>> THEN <<>> ELSE F(Head(items)) \o FlatMap(F, Tail(items))

(* the loop "for page in range(1, max_pages + 1)" of the three fetchers:   *)
(* Conv turns one item into its list of cache entries                      *)
RECURSIVE FetchLoop(_, _, _, _, _)
FetchLoop(Conv(_), script, page, per_page, max_pages) ==
  IF page > max_pages THEN <<>>
  ELSE LET r == script[page] IN
       IF r.kind = "invalid_page" THEN <<>>
       ELSE IF r.kind = "error" THEN <<>>
       ELSE IF r.items = <<>> THEN <<>>
       ELSE FlatMap(Conv, r.items)
              \o (IF Len(r.items) < per_page THEN <<>>
                  ELSE FetchLoop(Conv, script, page + 1, per_page, max_pages))

(* fetch_wp_posts / fetch_wp_pages: [cache, out, fetched] *)
fetch_wp_docs(cache, t, script) ==
  IF cache.docs # <<>> /\ t - cache.ts < TTL
  THEN [cache |-> cache, out |-> cache.docs, fetched |-> FALSE]
  ELSE LET out == FetchLoop(DocChunks, script, 1, PER_PAGE, MAX_PAGES)
       IN  [cache |-> [ts |-> t, docs |-> out], out |-> out, fetched |-> TRUE]

(* fetch_wp_media and get_post_attachments: a media item of the source     *)
(* becomes an image entry; the srcset lists the sizes by ascending width   *)
RECURSIVE InsertAsc(_, _)
InsertAsc(sorted, w) ==
  IF sorted = <<>> THEN <<w>>
  ELSE IF w < Head(sorted) THEN <<w>> \o sorted
       ELSE <<Head(sorted)>> \o InsertAsc(Tail(sorted), w)

RECURSIVE SortAsc(_)
SortAsc(ws) == IF ws = <<>> THEN <<>> ELSE InsertAsc(SortAsc(Tail(ws)), Head(ws))

Media1 == [id |-> 1, media_type |-> "image", title |-> <<"c">>, alt_text |-> <<>>,
           caption |-> <<>>, source_url |-> "m1", sizes |-> <<3, 1>>]
Media2 == [id |-> 2, media_type |-> "image", title |-> <<"a">>, alt_text |-> <<"b">>,
           caption |-> <<"<", "i", ">", "a">>, source_url |-> "m2", sizes |-> <<2>>]
Media3 == [id |-> 3, media_type |-> "video", title |-> <<"a">>, alt_text |-> <<>>,
           caption |-> <<>>, source_url |-> "m3", sizes |-> <<>>]
Media4 == [id |-> 4, media_type |-> "image", title |-> <<"d">>, alt_text |-> <<>>,
           caption |-> <<>>, source_url |-> "m4", sizes |-> <<>>]

MediaImgs(m) ==
  IF m.media_type # "image" THEN <<>>
  ELSE << [id |-> m.id, url |-> m.source_url, title |-> m.title, alt |-> m.alt_text,
           caption |-> strip_html(m.caption), srcset |-> SortAsc(m.sizes)] >>

MediaScripts == { <<Items(<<Media1>>), Items(<<Media2>>)>>,
                  <<Items(<<Media3>>), HttpError>>,
                  <<HttpError, HttpError>> }

fetch_wp_media(cache, t, script) ==
  IF cache.imgs # <<>> /\ t - cache.ts < TTL
  THEN [cache |-> cache, out |-> cache.imgs, fetched |-> FALSE]
  ELSE LET imgs == FetchLoop(MediaImgs, script, 1, PER_PAGE, MAX_PAGES)
       IN  [cache |-> [ts |-> t, imgs |-> imgs], out |-> imgs, fetched |-> TRUE]

(* what the source answers to the attachment query of each post id *)
PostIds == {1, 2}
AttachScripts == { [p \in PostIds |-> Items(<<>>)],
                   [p \in PostIds |-> IF p = 1 THEN Items(<<Media4>>) ELSE HttpError] }

RECURSIVE AttachLoop(_, _)
AttachLoop(post_ids, answers) ==
  IF post_ids = <<>> THEN <<>>
  ELSE (IF answers[Head(post_ids)].kind = "items"
        THEN FlatMap(MediaImgs, answers[Head(post_ids)].items) ELSE <<>>)
         \o AttachLoop(Tail(post_ids), answers)

get_post_attachments(post_ids, k, answers) ==
  IF post_ids = <<>> THEN <<>> ELSE Take(AttachLoop(post_ids, answers), k)

(* the keyword-scored fallback of compose over the list fetch_wp_media     *)
(* returned: every entry gets a "score", and the list is sorted in place   *)
ImgScore(img, terms) ==
  LET text == lower(img.title \o <<" ">> \o img.alt \o <<" ">> \o img.caption)
      RECURSIVE Sum(_)
      Sum(ts) == IF ts = <<>> THEN 0 ELSE StrCount(text, Head(ts)) + Sum(Tail(ts))
  IN  Sum(terms)

WithScore(img, n) ==
  [f \in (DOMAIN img) \cup {"score"} |-> IF f = "score" THEN n ELSE img[f]]

ScoreOf(img) == IF "score" \in DOMAIN img THEN img.score ELSE 0

(* list.sort(key=score, reverse=True): stable, highest score first *)
RECURSIVE InsertDesc(_, _, _)
InsertDesc(Key(_), sorted, x) ==
  IF sorted = <<>> THEN <<x>>
  ELSE IF Key(x) > Key(Head(sorted))
       THEN <<x>> \o sorted
       ELSE <<Head(sorted)>> \o InsertDesc(Key, Tail(sorted), x)

RECURSIVE SortDesc(_, _)
SortDesc(Key(_), xs) ==
  IF xs = <<>> THEN <<>>
  ELSE InsertDesc(Key, SortDesc(Key, SubSeq(xs, 1, Len(xs) - 1)), xs[Len(xs)])

score_media(all_imgs, question) ==
  LET terms  == tok(question)
      scored == [i \in 1..Len(all_imgs) |->
                   WithScore(all_imgs[i], ImgScore(all_imgs[i], terms))]
  IN  SortDesc(ScoreOf, scored)

----------------------------------------------------------------------------
(* The reranker and the ranking engine *)

Raise == [kind |-> "raise", results |-> <<>>]
Results(rs) == [kind |-> "ok", results |-> rs]
R(index, score) == [index |-> index, relevance_score |-> score]

RerankResponses ==
  { Raise, Results(<<>>), Results(<<R(0, 90)>>),
    Results(<<R(1, 90), R(0, 50)>>), Results(<<R(7, 90)>>) }

(* the lexical (BM25) scores of the chunks, one vector per corpus size *)
ScoreVectors(n) == { [i \in 1..n |-> 0], [i \in 1..n |-> i] }

(* a variant that sorts by ascending score *)
SortedIdx_ascending(scores) ==
  LET n == Len(scores)
      Key(i) == 0 - scores[i]
  IN  SortDesc(Key, [i \in 1..n |-> i])

(* sorted(range(n), key=scores, reverse=True) *)
SortedIdx(scores) ==
  LET n == Len(scores)
      Key(i) == scores[i]
  IN  SortDesc(Key, [i \in 1..n |-> i])

search_docs(docs, scores, rr, k) ==
  IF docs = <<>> THEN <<>>
  ELSE LET M          == Max(k * 5, k)
           top_idx    == Take(SortedIdx(scores), Min(M, Len(scores)))
           candidates == IF top_idx # <<>>
                         THEN [i \in 1..Len(top_idx) |-> docs[top_idx[i]]]
                         ELSE Take(docs, M)
       IN  IF rr.kind = "raise" THEN Take(candidates, k)
           ELSE IF rr.results = <<>> THEN Take(candidates, k)
           ELSE IF \E i \in 1..Len(rr.results) :
                      rr.results[i].index >= Len(candidates)
                THEN Take(candidates, k)
                ELSE [i \in 1..Len(rr.results) |->
                        candidates[rr.results[i].index + 1]]

(* the confidence probe of compose *)
ProbeResponses ==
  { Raise, Results(<<>>), Results(<<R(0, 0)>>), Results(<<R(0, 19)>>),
    Results(<<R(0, 20)>>) }

(* a variant whose default is 0.0 *)
top_score_of_default_zero(rr_top) ==
  IF rr_top.kind = "raise" THEN 0
  ELSE IF rr_top.results = <<>> THEN 0
  ELSE rr_top.results[1].relevance_score

top_score_of(rr_top) ==
  IF rr_top.kind = "raise" THEN DEFAULT_TOP_SCORE
  ELSE IF rr_top.results = <<>> THEN DEFAULT_TOP_SCORE
  ELSE rr_top.results[1].relevance_score

(* a variant that also rejects a score equal to the threshold *)
low_confidence_inclusive(top_score) ==
  RERANK_THRESHOLD # 0 /\ top_score <= RERANK_THRESHOLD

low_confidence(top_score) ==
  RERANK_THRESHOLD # 0 /\ top_score < RERANK_THRESHOLD

----------------------------------------------------------------------------
(* The planner: its raw text is a sequence of JSON tokens; "ok", "bare",    *)
(* "xss" and "bad" stand for the members of an object, "[]" and "null" for *)
(* a JSON array and a JSON null, "x" for text that is no JSON.  The title, *)
(* summary, section ids and headings of a plan are sequences of words, the *)
(* word "<script>" standing for a script element; paragraphs and bullets   *)
(* are sequences of Txt, Script, Mark(i) (the literal "[i]") and, once     *)
(* linked, Anchor(i).                                                      *)

Txt == [k |-> "txt", v |-> 0]
Script == [k |-> "script", v |-> 0]
Mark(i) == [k |-> "mark", v |-> i]
Anchor(i) == [k |-> "anchor", v |-> i]

Section(id, heading, paragraphs, bullets) ==
  [id |-> id, heading |-> heading, paragraphs |-> paragraphs, bullets |-> bullets]

PlanMembers ==
  [ ok   |-> [title |-> <<"P">>, summary |-> <<"S">>, show_toc |-> TRUE,
              sections |-> << Section(<<"s1">>, <<"H">>,
                                      << <<Txt, Mark(1)>>, <<Script, Mark(2)>> >>,
                                      << <<Txt>> >>) >>],
    bare |-> [title |-> <<>>, summary |-> <<>>, show_toc |-> FALSE, sections |-> <<>>],
    xss  |-> [title |-> <<"P", "<script>">>, summary |-> <<"<script>", "S">>,
              show_toc |-> TRUE,
              sections |-> << Section(<<"s1", "<script>">>, <<"<script>", "H">>,
                                      << <<Script, Txt>> >>, << <<Txt, Script>> >>) >>],
    bad  |-> [title |-> <<"P">>, summary |-> <<>>, show_toc |-> FALSE,
              sections |-> <<>>] ]

(* the object "bad" carries a "sections" member that is no list of objects *)
WellFormed == {"ok", "bare", "xss"}

PlannerResponses ==
  { [kind |-> "raise", text |-> <<>>],
    [kind |-> "ok", text |-> <<"{", "ok", "}">>],
    [kind |-> "ok", text |-> <<" ", "x", "{", "bare", "}", "x">>],
    [kind |-> "ok", text |-> <<"{", "bad", "}">>],
    [kind |-> "ok", text |-> <<"{", "xss", "}">>],
    [kind |-> "ok", text |-> <<"x">>],
    [kind |-> "ok", text |-> <<"}", "x", "{">>],
    [kind |-> "ok", text |-> <<"{", "x", "}">>],
    [kind |-> "ok", text |-> <<"[]">>],
    [kind |-> "ok", text |-> <<"null">>] }

Exc == [kind |-> "exception", sections_ok |-> FALSE]

(* json.loads *)
json_loads(txt) ==
  IF Len(txt) = 3 /\ txt[1] = "{" /\ txt[3] = "}" /\ txt[2] \in DOMAIN PlanMembers
  THEN [kind |-> "dict", plan |-> PlanMembers[txt[2]], sections_ok |-> txt[2] \in WellFormed]
  ELSE IF txt = <<"[]">> THEN [kind |-> "list", sections_ok |-> FALSE]
  ELSE IF txt = <<"null">> THEN [kind |-> "null", sections_ok |-> FALSE]
  ELSE Exc

Find(txt, c) ==
  IF \E i \in 1..Len(txt) : txt[i] = c
  THEN CHOOSE i \in 1..Len(txt) : txt[i] = c /\ \A j \in 1..(i - 1) : txt[j] # c
  ELSE 0

RFind(txt, c) ==
  IF \E i \in 1..Len(txt) : txt[i] = c
  THEN CHOOSE i \in 1..Len(txt) : txt[i] = c /\ \A j \in (i + 1)..Len(txt) : txt[j] # c
  ELSE 0

(* cohere_plan: the value it returns, or Exc when it raises *)
cohere_plan(resp) ==
  IF resp.kind = "raise" THEN Exc
  ELSE LET txt    == strip(resp.text)
           direct == json_loads(txt)
           start  == Find(txt, "{")
           end    == RFind(txt, "}")
       IN  IF direct # Exc THEN direct
           ELSE IF start # 0 /\ end # 0 /\ end > start
                THEN json_loads(SubSeq(txt, start, end))
                ELSE Exc

(* the three plans compose builds itself *)
NO_SOURCES_TITLE == <<"No sources available">>
LOW_CONFIDENCE_TITLE == <<"We couldn't find a confident answer">>

(* a variant that reuses the low-confidence wording *)
no_sources_plan_wrong_title ==
  [title |-> LOW_CONFIDENCE_TITLE, summary |-> <<>>, show_toc |-> FALSE,
   sections |-> << Section(<<"s1">>, <<"Please try again">>, << <<Txt>> >>, <<>>) >>]

no_sources_plan ==
  [title |-> NO_SOURCES_TITLE, summary |-> <<>>, show_toc |-> FALSE,
   sections |-> << Section(<<"s1">>, <<"Please try again">>, << <<Txt>> >>, <<>>) >>]

low_confidence_plan ==
  [title |-> LOW_CONFIDENCE_TITLE, summary |-> <<>>, show_toc |-> FALSE,
   sections |-> << Section(<<"s1">>, <<"Try rephrasing your question">>,
                           << <<Txt>> >>, <<>>) >>]

passthrough_plan(top) ==
  [title |-> top.title, summary |-> <<>>, show_toc |-> FALSE,
   sections |-> << Section(<<"s1">>, top.title, << <<Txt>> >>, <<>>) >>]

----------------------------------------------------------------------------
(* Rendering.  An article is the record of the parts render_article emits: *)
(* header, hero figure, table of contents, sections, sources footer.       *)

(* render_article raises on a plan that is no dict, and on sections that   *)
(* are no list of dicts                                                    *)
renderable(planned) == planned.kind = "dict" /\ planned.sections_ok

render_article(plan, citations, brand_class, include_citations, images) ==
  [brand    |-> brand_class,
   title    |-> plan.title,
   summary  |-> plan.summary,
   hero     |-> IF images # <<>> THEN <<images[1].url>> ELSE <<>>,
   toc      |-> IF plan.show_toc
                THEN [i \in 1..Len(plan.sections) |-> plan.sections[i].id]
                ELSE <<>>,
   sections |-> plan.sections,
   footer   |-> IF include_citations /\ citations # <<>>
                THEN [i \in 1..Len(citations) |-> i]
                ELSE <<>>,
   clean    |-> FALSE]

RECURSIVE DropScripts(_)
DropScripts(para) ==
  IF para = <<>> THEN <<>>
  ELSE IF Head(para).k = "script" THEN DropScripts(Tail(para))
       ELSE <<Head(para)>> \o DropScripts(Tail(para))

MapParas(F(_), sections) ==
  [i \in 1..Len(sections) |->
     [sections[i] EXCEPT
        !.paragraphs = [j \in 1..Len(@) |-> F(@[j])],
        !.bullets    = [j \in 1..Len(@) |-> F(@[j])]]]

(* bleach.clean with the allow-list over the whole article: the script     *)
(* elements are stripped wherever they stand                               *)
sanitize_html(article) ==
  [article EXCEPT
     !.title    = SeqFilterOut(@, "<script>"),
     !.summary  = SeqFilterOut(@, "<script>"),
     !.toc      = [i \in 1..Len(@) |-> SeqFilterOut(@[i], "<script>")],
     !.sections = [i \in 1..Len(@) |->
                     [id         |-> SeqFilterOut(@[i].id, "<script>"),
                      heading    |-> SeqFilterOut(@[i].heading, "<script>"),
                      paragraphs |-> [j \in 1..Len(@[i].paragraphs) |->
                                        DropScripts(@[i].paragraphs[j])],
                      bullets    |-> [j \in 1..Len(@[i].bullets) |->
                                        DropScripts(@[i].bullets[j])]]],
     !.clean    = TRUE]

linkify_citations(article, citations) ==
  IF citations = <<>> THEN article
  ELSE LET Link(para) ==
             [j \in 1..Len(para) |->
                IF para[j].k = "mark" /\ para[j].v \in 1..Len(citations)
                THEN Anchor(para[j].v) ELSE para[j]]
       IN  [article EXCEPT !.sections = MapParas(Link, @)]

RECURSIVE DedupeFrom(_, _)
DedupeFrom(items, seen) ==
  IF items = <<>> THEN <<>>
  ELSE LET c   == Head(items)
           key == lower(strip(IF c.url # <<>> THEN c.url ELSE c.title))
       IN  IF key = <<>> \/ key \in seen THEN DedupeFrom(Tail(items), seen)
           ELSE <<c>> \o DedupeFrom(Tail(items), seen \cup {key})

(* a variant that only drops the items without a key *)
dedupe_citations_keeps_repeats(items) ==
  LET HasKey(c) == lower(strip(IF c.url # <<>> THEN c.url ELSE c.title)) # <<>>
  IN  SelectSeq(items, HasKey)

dedupe_citations(items) == DedupeFrom(items, {})

(* trace_id_for: the hash of the raw question, taken to be collision-free *)
trace_id_for(question) == question

build_fullpage_html(title, article_html, brand_class, primary, trace_id, page_id) ==
  [title |-> title, article |-> article_html, brand |-> brand_class,
   primary |-> primary, trace_id |-> trace_id,
   canonical |-> page_id, download |-> page_id]

----------------------------------------------------------------------------
(* Page store and answer cache *)

(* a variant that keeps a page one unit too long *)
cleanup_pages_late(pages, t) ==
  [p \in {q \in DOMAIN pages : ~(t - pages[q].ts > PAGES_TTL_SEC + 1)} |-> pages[p]]

cleanup_pages(pages, t) ==
  [p \in {q \in DOMAIN pages : ~(t - pages[q].ts > PAGES_TTL_SEC)} |-> pages[p]]

(* a variant that sweeps nothing *)
cleanup_answers_keeps_all(answers, t) == answers

cleanup_answers(answers, t) ==
  [k \in {c \in DOMAIN answers : ~(t - answers[c].ts > ANSWER_TTL_SEC)} |-> answers[k]]

(* PAGES[pid] = {...}: a dict store, which adds or replaces the key *)
Put(dict, key, value) ==
  [k \in (DOMAIN dict) \cup {key} |-> IF k = key THEN value ELSE dict[k]]

(* _save_page under the id pid that _new_id drew *)
save_page(pages, t, pid, title, html) ==
  Put(cleanup_pages(pages, t), pid, [title |-> title, html |-> html, ts |-> t])

(* the memo probe of compose: cached and cached.get("page_id") in PAGES *)
memo_hit(answers, pages, ck) ==
  ck \in DOMAIN answers /\ answers[ck].page_id \in DOMAIN pages

----------------------------------------------------------------------------
(* Requests to compose *)

Req(question, include_citations) ==
  [question |-> question, layout |-> <<"g">>, include_citations |-> include_citations,
   brand_class |-> <<"x">>, primary |-> <<"p">>]

REQUESTS == { Req(<<"a", " ", "b">>, TRUE),
              Req(<<" ", "A", " ", " ", "b">>, TRUE),
              Req(<<"a", " ", "b">>, FALSE) }

KeyOf(req) ==
  cache_key(req.question, req.layout, req.include_citations, req.brand_class, req.primary)

Keys == {KeyOf(r) : r \in REQUESTS}

----------------------------------------------------------------------------
(* The cold path of compose_answer_page up to the page it will store: the  *)
(* set of its results over every answer the content source, the reranker   *)
(* and the planner can give.  A result names the outcome, the title and    *)
(* the sanitized, linkified article ("error": an exception left compose),  *)
(* the content caches as the path leaves them, and what was called.        *)

Result(outcome, title, article, posts, pages, media, calls, nhits, probe, top_score, planner) ==
  [outcome |-> outcome, title |-> title, article |-> article,
   posts |-> posts, pages |-> pages, media |-> media, calls |-> calls,
   nhits |-> nhits, probe |-> probe, top_score |-> top_score, planner |-> planner]

NoArticle == <<>>

Fallback(plan, brand_class) ==
  linkify_citations(sanitize_html(render_article(plan, <<>>, brand_class, FALSE, <<>>)),
                    <<>>)

Sources(doc_hits) ==
  LET top == Take(doc_hits, FINAL_DOCS)
  IN  [i \in 1..Len(top) |->
         [title |-> IF top[i].title # <<>> THEN top[i].title ELSE <<"Untitled">>,
          url |-> top[i].url,
          text_chunk |-> Take(top[i].text_chunk, EXCERPT_LEN)]]

Citations(sources) ==
  dedupe_citations([i \in 1..Len(sources) |->
                      [title |-> sources[i].title, url |-> sources[i].url]])

(* the image selection: the images and the media cache it leaves *)
ImageChoice(req, doc_hits, media, t, w) ==
  LET post_ids == [i \in 1..Len(doc_hits) |-> doc_hits[i].post_id]
      images   == get_post_attachments(post_ids, MAX_IMAGES, w.attach)
  IN  IF images # <<>>
      THEN [images |-> images, media |-> media]
      ELSE LET f      == fetch_wp_media(media, t, w.media)
               sorted == score_media(f.out, req.question)
           IN  [images |-> Take(sorted, MAX_IMAGES),
                media  |-> [f.cache EXCEPT !.imgs = sorted]]

PlannerClass(planned) ==
  IF planned = Exc THEN "exception"
  ELSE IF renderable(planned) THEN "plan" ELSE "malformed"

Answer(req, doc_hits, posts, pages, media, t, probe, top_score, w) ==
  LET sources   == Sources(doc_hits)
      citations == Citations(sources)
      calls     == {"source", "rerank", "planner"}
      img       == ImageChoice(req, doc_hits, media, t, w)
      planned   == cohere_plan(w.planner)
      plan      == IF planned = Exc THEN passthrough_plan(sources[1]) ELSE planned.plan
  IN  IF planned # Exc /\ ~renderable(planned)
      THEN Result("error", <<>>, NoArticle, posts, pages, img.media, calls,
                  Len(doc_hits), probe, top_score, PlannerClass(planned))
      ELSE Result(IF planned = Exc THEN "passthrough" ELSE "plan",
                  IF plan.title # <<>> THEN plan.title ELSE <<"Article">>,
                  linkify_citations(
                    sanitize_html(render_article(plan, citations, req.brand_class,
                                                 req.include_citations, img.images)),
                    citations),
                  posts, pages, img.media, calls, Len(doc_hits), probe, top_score,
                  PlannerClass(planned))

Gate(req, doc_hits, posts, pages, media, t, calls, w) ==
  LET top_score == top_score_of(w.probe) IN
  IF low_confidence(top_score)
  THEN Result("low_confidence", low_confidence_plan.title,
              Fallback(low_confidence_plan, req.brand_class),
              posts, pages, media, calls \cup {"rerank"}, Len(doc_hits),
              w.probe.kind, top_score, "none")
  ELSE Answer(req, doc_hits, posts, pages, media, t, w.probe.kind, top_score, w)

(* the cold path under the answers w of the outside world *)
ColdPath(req, posts, pages, media, t, w) ==
  LET pf       == fetch_wp_docs(posts, t, w.posts)
      gf       == fetch_wp_docs(pages, t, w.pages)
      docs     == pf.out \o gf.out
      calls    == (IF pf.fetched \/ gf.fetched THEN {"source"} ELSE {})
                    \cup (IF docs # <<>> THEN {"rerank"} ELSE {})
      doc_hits == search_docs(docs, w.scores[Len(docs)], w.rerank, FINAL_DOCS)
  IN  IF doc_hits = <<>>
      THEN Result("no_sources", no_sources_plan.title,
                  Fallback(no_sources_plan, req.brand_class),
                  pf.cache, gf.cache, media, calls, 0, "none", DEFAULT_TOP_SCORE, "none")
      ELSE Gate(req, doc_hits, pf.cache, gf.cache, media, t, calls, w)

(* The answers of the outside world to a compose call: one per capability. *)
(* WORLDS holds a usual world and the worlds that differ from it in the    *)
(* answer of one capability or, for the empty corpus, of two.  The world   *)
(* is drawn at the start and stays as it is along a behaviour.             *)
MaxDocs == 3
Flat == [n \in 0..MaxDocs |-> [i \in 1..n |-> 0]]
Rising == [n \in 0..MaxDocs |-> [i \in 1..n |-> i]]

World(posts, pages, scores, rerank, probe, attach, media, planner) ==
  [posts |-> posts, pages |-> pages, scores |-> scores, rerank |-> rerank,
   probe |-> probe, attach |-> attach, media |-> media, planner |-> planner]

PostsOk == <<Items(<<Post1>>), Items(<<>>)>>
PostsDown == <<HttpError, HttpError>>
PagesOk == <<Items(<<Page2>>), InvalidPage>>
PagesDown == <<HttpError, HttpError>>
MediaOk == <<Items(<<Media1>>), Items(<<Media2>>)>>
NoAttach == [p \in PostIds |-> Items(<<>>)]
SomeAttach == [p \in PostIds |-> IF p = 1 THEN Items(<<Media4>>) ELSE HttpError]
RerankOk == Results(<<R(1, 90), R(0, 50)>>)
ProbeOk == Results(<<R(0, 20)>>)
PlanText(member) == [kind |-> "ok", text |-> <<"{", member, "}">>]

Usual == World(PostsOk, PagesOk, Flat, RerankOk, ProbeOk, NoAttach, MediaOk, PlanText("ok"))

Down == [Usual EXCEPT !.posts = PostsDown, !.pages = PagesDown]

WORLDS ==
  {Usual, Down}
    \cup {[Usual EXCEPT !.probe = x] : x \in ProbeResponses}
    \cup {[Usual EXCEPT !.planner = x] : x \in PlannerResponses}
    \cup {[Usual EXCEPT !.rerank = x, !.scores = Rising, !.attach = SomeAttach]
            : x \in RerankResponses}
    \cup {[Usual EXCEPT !.media = x, !.pages = PagesDown] : x \in MediaScripts}
    \cup {[Usual EXCEPT !.posts = x, !.probe = Raise] : x \in PostScripts}

(* the worlds of the behaviours in which the clock advances *)
TIMED_WORLDS == {Usual, Down, [Usual EXCEPT !.planner = PlanText("bad")]}

----------------------------------------------------------------------------
(* State.  last describes the handler that ran last since the clock last   *)
(* advanced (what it was asked, what it found, what it returned).  issued  *)
(* keeps, per request identity (the question trimmed, its whitespace runs  *)
(* collapsed, lower-cased, and the four other parameters), the id and time *)
(* of the last compose that returned and of the last one that generated a  *)
(* page.                                                                   *)

Threads == {1, 2}

RECURSIVE JoinWords(_)
JoinWords(ws) ==
  IF ws = <<>> THEN <<>>
  ELSE IF Len(ws) = 1 THEN ws[1]
  ELSE ws[1] \o <<" ">> \o JoinWords(Tail(ws))

Identity(req) ==
  <<JoinWords(SplitWords(lower(req.question), <<>>)), req.layout, req.include_citations,
    req.brand_class, req.primary>>

Identities == {Identity(r) : r \in REQUESTS}

NoRequest == Req(<<>>, FALSE)

NoLast ==
  [op |-> "none", req |-> NoRequest, key |-> <<>>, outcome |-> "none", id |-> 0,
   title |-> <<>>, calls |-> {}, memo |-> "none", age |-> -1, nhits |-> -1,
   probe |-> "none", top_score |-> DEFAULT_TOP_SCORE, planner |-> "none", served |-> -1]

NoIssue == [id |-> 0, at |-> 0, gen_id |-> 0, gen_at |-> 0]

IdleLoc ==
  [req |-> NoRequest, memo |-> "none", n |-> 0, del |-> {}, outcome |-> "none",
   title |-> <<>>, article |-> NoArticle, pid |-> 0, id |-> 0, error |-> "none"]

(* util holds one call of a utility function: its arguments and, once the  *)
(* call has run, what it returned                                          *)
NoCall == [fn |-> "none", args |-> <<>>, ret |-> <<>>, done |-> FALSE]

InitWith(worlds) ==
  /\ now = 0
  /\ world \in worlds
  /\ POSTS_CACHE = [ts |-> 0, docs |-> <<>>]
  /\ PAGES_CACHE = [ts |-> 0, docs |-> <<>>]
  /\ MEDIA_CACHE = [ts |-> 0, imgs |-> <<>>]
  /\ PAGES = <<>>
  /\ ANSWER_CACHE = <<>>
  /\ last = NoLast
  /\ issued = [k \in Identities |-> NoIssue]
  /\ pc = [t \in Threads |-> "idle"]
  /\ loc = [t \in Threads |-> IdleLoc]
  /\ util = NoCall

Init == InitWith(TIMED_WORLDS)

(* what the memo held for ck when the call arrived *)
MemoState(answers, pages, t, ck) ==
  IF ck \notin DOMAIN answers THEN "absent"
  ELSE IF t - answers[ck].ts > ANSWER_TTL_SEC THEN "expired"
  ELSE IF answers[ck].page_id \notin DOMAIN pages THEN "dangling"
  ELSE "live"

(* the age of the page the memo entry of ck points to, -1 if there is none *)
MemoPageAge(answers, pages, t, ck) ==
  IF ck \in DOMAIN answers /\ answers[ck].page_id \in DOMAIN pages
  THEN t - pages[answers[ck].page_id].ts ELSE -1

ComposeLast(req, ck, r, pid, title) ==
  [NoLast EXCEPT
     !.op = "compose", !.req = req, !.key = ck, !.outcome = r.outcome, !.id = pid,
     !.title = title, !.calls = r.calls,
     !.memo = MemoState(ANSWER_CACHE, PAGES, now, ck),
     !.age = MemoPageAge(ANSWER_CACHE, PAGES, now, ck),
     !.nhits = r.nhits, !.probe = r.probe, !.top_score = r.top_score,
     !.planner = r.planner]

HitResult ==
  Result("hit", <<>>, NoArticle, POSTS_CACHE, PAGES_CACHE, MEDIA_CACHE, {}, -1, "none",
         DEFAULT_TOP_SCORE, "none")

(* a variant of the fast path that renews the memo entry it used *)
ComposeHit_renews(req) ==
  LET ck == KeyOf(req) IN
  \E answers \in {cleanup_answers(ANSWER_CACHE, now)} :
    /\ memo_hit(answers, PAGES, ck)
    /\ \E pid \in {answers[ck].page_id} :
         /\ ANSWER_CACHE' = Put(answers, ck, [page_id |-> pid, ts |-> now])
         /\ last' = ComposeLast(req, ck, HitResult, pid, PAGES[pid].title)
         /\ issued' = [issued EXCEPT ![Identity(req)].id = pid, ![Identity(req)].at = now]
    /\ UNCHANGED <<now, world, util, POSTS_CACHE, PAGES_CACHE, MEDIA_CACHE, PAGES, pc, loc>>

(* compose_answer_page, lines 704-709: the memo fast path *)
ComposeHit(req) ==
  LET ck == KeyOf(req) IN
  \E answers \in {cleanup_answers(ANSWER_CACHE, now)} :
    /\ memo_hit(answers, PAGES, ck)
    /\ \E pid \in {answers[ck].page_id} :
         /\ ANSWER_CACHE' = answers
         /\ last' = ComposeLast(req, ck, HitResult, pid, PAGES[pid].title)
         /\ issued' = [issued EXCEPT ![Identity(req)].id = pid, ![Identity(req)].at = now]
    /\ UNCHANGED <<now, world, util, POSTS_CACHE, PAGES_CACHE, MEDIA_CACHE, PAGES, pc, loc>>

(* a variant that leaves the page as _save_page stored it *)
StoredPages_first_write_only(pages, t, pid, req, r) ==
  save_page(pages, t, pid, r.title,
            build_fullpage_html(r.title, r.article, req.brand_class, req.primary,
                                trace_id_for(req.question), TMP))

(* the two-phase store that ends every cold path *)
StoredPages(pages, t, pid, req, r) ==
  LET trace_id == trace_id_for(req.question)
      tmp_html == build_fullpage_html(r.title, r.article, req.brand_class, req.primary,
                                      trace_id, TMP)
      saved    == save_page(pages, t, pid, r.title, tmp_html)
      full     == build_fullpage_html(r.title, r.article, req.brand_class, req.primary,
                                      trace_id, pid)
  IN  [saved EXCEPT ![pid].html = full]

(* compose_answer_page, lines 711-801: the cold path *)
ComposeMiss(req) ==
  LET ck == KeyOf(req) IN
  \E answers \in {cleanup_answers(ANSWER_CACHE, now)} :
    /\ ~memo_hit(answers, PAGES, ck)
    /\ \E r \in {ColdPath(req, POSTS_CACHE, PAGES_CACHE, MEDIA_CACHE, now, world)} :
         /\ POSTS_CACHE' = r.posts
         /\ PAGES_CACHE' = r.pages
         /\ MEDIA_CACHE' = r.media
         /\ IF r.outcome = "error"
            THEN /\ ANSWER_CACHE' = answers
                 /\ last' = ComposeLast(req, ck, r, 0, <<>>)
                 /\ UNCHANGED <<PAGES, issued>>
            ELSE \E pid \in IDS :
                   /\ PAGES' = StoredPages(PAGES, now, pid, req, r)
                   /\ ANSWER_CACHE' = Put(answers, ck, [page_id |-> pid, ts |-> now])
                   /\ last' = ComposeLast(req, ck, r, pid, r.title)
                   /\ issued' = [issued EXCEPT ![Identity(req)] =
                                   [id |-> pid, at |-> now, gen_id |-> pid, gen_at |-> now]]
    /\ UNCHANGED <<now, world, util, pc, loc>>

(* view_page and download_page: both sweep, look the page up and serve it *)
Serve(op, page_id) ==
  \E pages \in {cleanup_pages(PAGES, now)} :
    /\ PAGES' = pages
    /\ last' = [NoLast EXCEPT
                  !.op = op, !.id = page_id,
                  !.age = IF page_id \in DOMAIN PAGES THEN now - PAGES[page_id].ts ELSE -1,
                  !.outcome = IF page_id \in DOMAIN pages THEN "served" ELSE "not_found",
                  !.title = IF page_id \in DOMAIN pages THEN pages[page_id].title ELSE <<>>,
                  !.served = IF page_id \in DOMAIN pages
                             THEN pages[page_id].html.canonical ELSE -1]
    /\ UNCHANGED <<now, world, util, POSTS_CACHE, PAGES_CACHE, MEDIA_CACHE, ANSWER_CACHE, issued,
                   pc, loc>>

view_page(page_id) == Serve("view", page_id)

download_page(page_id) == Serve("download", page_id)

Tick ==
  /\ now < MaxTime
  /\ now' = now + 1
  /\ last' = NoLast
  /\ UNCHANGED <<world, util, POSTS_CACHE, PAGES_CACHE, MEDIA_CACHE, PAGES, ANSWER_CACHE, issued,
                 pc, loc>>

Next ==
  \/ \E req \in REQUESTS : ComposeHit(req)
  \/ \E req \in REQUESTS : ComposeMiss(req)
  \/ \E page_id \in IDS : view_page(page_id)
  \/ \E page_id \in IDS : download_page(page_id)
  \/ Tick

Spec == Init /\ [][Next]_vars

(* The same handlers at one instant of the clock, under every world *)
InitPipe == InitWith(WORLDS)

NextPipe ==
  \/ \E req \in REQUESTS : ComposeHit(req)
  \/ \E req \in REQUESTS : ComposeMiss(req)
  \/ \E page_id \in IDS : view_page(page_id)
  \/ \E page_id \in IDS : download_page(page_id)

SpecPipe == InitPipe /\ [][NextPipe]_vars

----------------------------------------------------------------------------
(* Two request threads of the threaded server, each running one compose.   *)
(* A thread moves from one access of the shared dicts to the next; what    *)
(* lies between two accesses is its own.  The list comprehension of a      *)
(* sweep iterates the dict: a dict that held entries when the iteration    *)
(* began and changes size before it ends raises RuntimeError.  The order   *)
(* in which a sweep deletes the keys it collected is not modelled.         *)

(* the store after an earlier compose of req at instant 0, under id 1 *)
Earlier(req, w) ==
  LET r == ColdPath(req, [ts |-> 0, docs |-> <<>>], [ts |-> 0, docs |-> <<>>],
                    [ts |-> 0, imgs |-> <<>>], 0, w)
  IN  [posts |-> r.posts, pages |-> r.pages, media |-> r.media,
       PAGES |-> StoredPages(<<>>, 0, 1, req, r),
       ANSWER_CACHE |-> Put(<<>>, KeyOf(req), [page_id |-> 1, ts |-> 0])]

Fresh ==
  [posts |-> [ts |-> 0, docs |-> <<>>], pages |-> [ts |-> 0, docs |-> <<>>],
   media |-> [ts |-> 0, imgs |-> <<>>], PAGES |-> <<>>, ANSWER_CACHE |-> <<>>]

CONC_WORLDS == {Usual, Down}

InitConc ==
  /\ now \in 0..MaxTime
  /\ world \in CONC_WORLDS
  /\ \E e \in {Fresh} \cup {Earlier(req, world) : req \in REQUESTS} :
       /\ POSTS_CACHE = e.posts
       /\ PAGES_CACHE = e.pages
       /\ MEDIA_CACHE = e.media
       /\ PAGES = e.PAGES
       /\ ANSWER_CACHE = e.ANSWER_CACHE
  /\ last = NoLast
  /\ issued = [k \in Identities |-> NoIssue]
  /\ pc = [t \in Threads |-> "idle"]
  /\ loc = [t \in Threads |-> IdleLoc]
  /\ util = NoCall

Goto(t, label, locals) ==
  /\ pc' = [pc EXCEPT ![t] = label]
  /\ loc' = [loc EXCEPT ![t] = locals]

(* an exception leaves compose_answer_page: the request ends with an error *)
Fail(t, error) ==
  Goto(t, "failed", [loc[t] EXCEPT !.outcome = "error", !.error = error])

Drop(dict, key) == [k \in (DOMAIN dict) \ {key} |-> dict[k]]

(* compose_answer_page is entered *)
Begin(t, req) ==
  /\ pc[t] = "idle"
  /\ Goto(t, "answers_iter",
          [IdleLoc EXCEPT !.req = req,
                          !.memo = MemoState(ANSWER_CACHE, PAGES, now, KeyOf(req)),
                          !.n = Cardinality(DOMAIN ANSWER_CACHE)])
  /\ UNCHANGED <<now, world, util, POSTS_CACHE, PAGES_CACHE, MEDIA_CACHE, PAGES, ANSWER_CACHE,
                 last, issued>>

(* _cleanup_answers, line 121: the iteration over ANSWER_CACHE ends *)
cleanup_answers_scan(t) ==
  /\ pc[t] = "answers_iter"
  /\ IF loc[t].n > 0 /\ Cardinality(DOMAIN ANSWER_CACHE) # loc[t].n
     THEN Fail(t, "RuntimeError")
     ELSE Goto(t, "answers_del",
               [loc[t] EXCEPT !.del = (DOMAIN ANSWER_CACHE)
                                        \ DOMAIN cleanup_answers(ANSWER_CACHE, now)])
  /\ UNCHANGED <<now, world, util, POSTS_CACHE, PAGES_CACHE, MEDIA_CACHE, PAGES, ANSWER_CACHE,
                 last, issued>>

(* _cleanup_answers, lines 122-123: one del, or the end of the loop *)
cleanup_answers_del(t) ==
  /\ pc[t] = "answers_del"
  /\ IF loc[t].del = {}
     THEN Goto(t, "probe", loc[t]) /\ UNCHANGED ANSWER_CACHE
     ELSE \E k \in loc[t].del :
            IF k \in DOMAIN ANSWER_CACHE
            THEN /\ ANSWER_CACHE' = Drop(ANSWER_CACHE, k)
                 /\ Goto(t, "answers_del", [loc[t] EXCEPT !.del = @ \ {k}])
            ELSE Fail(t, "KeyError") /\ UNCHANGED ANSWER_CACHE
  /\ UNCHANGED <<now, world, util, POSTS_CACHE, PAGES_CACHE, MEDIA_CACHE, PAGES, last, issued>>

(* lines 705-709: the memo probe and the fast return *)
probe(t) ==
  /\ pc[t] = "probe"
  /\ LET ck == KeyOf(loc[t].req) IN
     IF memo_hit(ANSWER_CACHE, PAGES, ck)
     THEN Goto(t, "done", [loc[t] EXCEPT !.outcome = "hit",
                                         !.id = ANSWER_CACHE[ck].page_id,
                                         !.title = PAGES[ANSWER_CACHE[ck].page_id].title])
     ELSE Goto(t, "cold", loc[t])
  /\ UNCHANGED <<now, world, util, POSTS_CACHE, PAGES_CACHE, MEDIA_CACHE, PAGES, ANSWER_CACHE,
                 last, issued>>

(* lines 711-795: retrieval, gate, planner, rendering; _save_page is entered *)
cold(t) ==
  /\ pc[t] = "cold"
  /\ \E r \in {ColdPath(loc[t].req, POSTS_CACHE, PAGES_CACHE, MEDIA_CACHE, now, world)} :
       /\ POSTS_CACHE' = r.posts
       /\ PAGES_CACHE' = r.pages
       /\ MEDIA_CACHE' = r.media
       /\ IF r.outcome = "error"
          THEN Fail(t, "AttributeError")
          ELSE Goto(t, "pages_iter",
                    [loc[t] EXCEPT !.outcome = r.outcome, !.title = r.title,
                                   !.article = r.article,
                                   !.n = Cardinality(DOMAIN PAGES)])
  /\ UNCHANGED <<now, world, util, PAGES, ANSWER_CACHE, last, issued>>

(* _cleanup_pages, line 115: the iteration over PAGES ends *)
cleanup_pages_scan(t) ==
  /\ pc[t] = "pages_iter"
  /\ IF loc[t].n > 0 /\ Cardinality(DOMAIN PAGES) # loc[t].n
     THEN Fail(t, "RuntimeError")
     ELSE Goto(t, "pages_del",
               [loc[t] EXCEPT !.del = (DOMAIN PAGES) \ DOMAIN cleanup_pages(PAGES, now)])
  /\ UNCHANGED <<now, world, util, POSTS_CACHE, PAGES_CACHE, MEDIA_CACHE, PAGES, ANSWER_CACHE,
                 last, issued>>

(* _cleanup_pages, lines 116-117: one del, or the end of the loop *)
cleanup_pages_del(t) ==
  /\ pc[t] = "pages_del"
  /\ IF loc[t].del = {}
     THEN Goto(t, "store", loc[t]) /\ UNCHANGED PAGES
     ELSE \E p \in loc[t].del :
            IF p \in DOMAIN PAGES
            THEN /\ PAGES' = Drop(PAGES, p)
                 /\ Goto(t, "pages_del", [loc[t] EXCEPT !.del = @ \ {p}])
            ELSE Fail(t, "KeyError") /\ UNCHANGED PAGES
  /\ UNCHANGED <<now, world, util, POSTS_CACHE, PAGES_CACHE, MEDIA_CACHE, ANSWER_CACHE, last,
                 issued>>

(* _save_page, lines 127-128: the page is stored under a new id *)
store(t) ==
  /\ pc[t] = "store"
  /\ \E pid \in IDS :
       /\ PAGES' = Put(PAGES, pid,
                       [title |-> loc[t].title,
                        html |-> build_fullpage_html(loc[t].title, loc[t].article,
                                   loc[t].req.brand_class, loc[t].req.primary,
                                   trace_id_for(loc[t].req.question), TMP),
                        ts |-> now])
       /\ Goto(t, "patch", [loc[t] EXCEPT !.pid = pid])
  /\ UNCHANGED <<now, world, util, POSTS_CACHE, PAGES_CACHE, MEDIA_CACHE, ANSWER_CACHE, last,
                 issued>>

(* PAGES[pid]["html"] = full_html *)
patch(t) ==
  /\ pc[t] = "patch"
  /\ IF loc[t].pid \in DOMAIN PAGES
     THEN /\ PAGES' = [PAGES EXCEPT ![loc[t].pid].html =
                         build_fullpage_html(loc[t].title, loc[t].article,
                           loc[t].req.brand_class, loc[t].req.primary,
                           trace_id_for(loc[t].req.question), loc[t].pid)]
          /\ Goto(t, "memo", loc[t])
     ELSE Fail(t, "KeyError") /\ UNCHANGED PAGES
  /\ UNCHANGED <<now, world, util, POSTS_CACHE, PAGES_CACHE, MEDIA_CACHE, ANSWER_CACHE, last,
                 issued>>

(* ANSWER_CACHE[ck] = {...} and the return *)
memo(t) ==
  /\ pc[t] = "memo"
  /\ ANSWER_CACHE' = Put(ANSWER_CACHE, KeyOf(loc[t].req),
                         [page_id |-> loc[t].pid, ts |-> now])
  /\ Goto(t, "done", [loc[t] EXCEPT !.id = loc[t].pid])
  /\ UNCHANGED <<now, world, util, POSTS_CACHE, PAGES_CACHE, MEDIA_CACHE, PAGES, last, issued>>

NextConc ==
  \E t \in Threads :
    \/ \E req \in REQUESTS : Begin(t, req)
    \/ cleanup_answers_scan(t)
    \/ cleanup_answers_del(t)
    \/ probe(t)
    \/ cold(t)
    \/ cleanup_pages_scan(t)
    \/ cleanup_pages_del(t)
    \/ store(t)
    \/ patch(t)
    \/ memo(t)

SpecConc == InitConc /\ [][NextConc]_vars

----------------------------------------------------------------------------
(* Calls of the utility functions.  The rest of the state is at rest. *)

AtRest ==
  /\ world = Usual
  /\ POSTS_CACHE = [ts |-> 0, docs |-> <<>>]
  /\ PAGES_CACHE = [ts |-> 0, docs |-> <<>>]
  /\ MEDIA_CACHE = [ts |-> 0, imgs |-> <<>>]
  /\ PAGES = <<>>
  /\ ANSWER_CACHE = <<>>
  /\ last = NoLast
  /\ issued = [k \in Identities |-> NoIssue]
  /\ pc = [t \in Threads |-> "idle"]
  /\ loc = [t \in Threads |-> IdleLoc]

Call(fn, args) == [fn |-> fn, args |-> args, ret |-> <<>>, done |-> FALSE]

Return(ret) ==
  /\ util' = [util EXCEPT !.ret = ret, !.done = TRUE]
  /\ UNCHANGED <<now, world, POSTS_CACHE, PAGES_CACHE, MEDIA_CACHE, PAGES, ANSWER_CACHE,
                 last, issued, pc, loc>>

(* search_docs over a corpus snapshot of n chunks, chunk i being the only  *)
(* chunk of document i, with the lexical scores and the reranker's answer  *)
MaxK == 2

Corpus(n) ==
  [i \in 1..n |->
     [post_id |-> i, title |-> <<"T">>, url |-> <<"u">>, text_chunk |-> <<"a">>]]

(* the reranker's answers: it raises, or returns up to two results whose   *)
(* indexes are any, in range or not, distinct or not                       *)
SearchReranks ==
  {Raise, Results(<<>>)}
    \cup {Results(<<R(i, 50)>>) : i \in 0..(MaxDocs - 1)}
    \cup {Results(<<R(i, 50), R(j, 40)>>) : i, j \in 0..(MaxDocs - 1)}

InitSearch ==
  /\ now = 0
  /\ AtRest
  /\ \E n \in 0..MaxDocs, k \in 1..MaxK, rr \in SearchReranks :
       \E scores \in [1..n -> {0, 1}] :
         util = Call("search_docs", [n |-> n, scores |-> scores, rr |-> rr, k |-> k])

search(query) ==
  /\ util.fn = "search_docs" /\ ~util.done
  /\ Return(search_docs(Corpus(util.args.n), util.args.scores, util.args.rr, util.args.k))

NextSearch == \E query \in {<<"a">>} : search(query)

SpecSearch == InitSearch /\ [][NextSearch]_vars

(* Reads of the three partitions of the content cache while the clock      *)
(* advances and the content source answers each refresh as it likes.  The  *)
(* program starts long after the epoch: the initial ts = 0 of a partition  *)
(* is at least a TTL old at the first read.                                *)

Post3 == [id |-> 3, title |-> <<>>, link |-> <<"u3">>, content |-> <<"a">>]

CachePostScripts ==
  PostScripts \cup { <<Items(<<Post3>>), Items(<<Post1>>)>>,
                     <<Items(<<Post1>>), HttpError>> }

CachePageScripts == PageScripts \cup { <<Items(<<>>), InvalidPage>> }

InitCache ==
  /\ now = TTL
  /\ AtRest
  /\ util = NoCall

(* the refresh met a network or parse error before the loop ended *)
RECURSIVE RefetchFailed(_, _, _, _)
RefetchFailed(script, page, per_page, max_pages) ==
  IF page > max_pages THEN FALSE
  ELSE LET r == script[page] IN
       IF r.kind = "error" THEN TRUE
       ELSE IF r.kind = "invalid_page" \/ r.items = <<>> \/ Len(r.items) < per_page
            THEN FALSE
            ELSE RefetchFailed(script, page + 1, per_page, max_pages)

Read(partition, before, snapshot, f, script) ==
  util' = [fn |-> partition,
           args |-> [ts |-> before.ts, snapshot |-> snapshot, t |-> now,
                     failed |-> RefetchFailed(script, 1, PER_PAGE, MAX_PAGES)],
           ret |-> [out |-> f.out, fetched |-> f.fetched],
           done |-> TRUE]

fetch_wp_posts(script) ==
  \E f \in {fetch_wp_docs(POSTS_CACHE, now, script)} :
    /\ POSTS_CACHE' = f.cache
    /\ Read("posts", POSTS_CACHE, POSTS_CACHE.docs, f, script)
    /\ UNCHANGED <<now, world, PAGES_CACHE, MEDIA_CACHE, PAGES, ANSWER_CACHE, last, issued,
                   pc, loc>>

fetch_wp_pages(script) ==
  \E f \in {fetch_wp_docs(PAGES_CACHE, now, script)} :
    /\ PAGES_CACHE' = f.cache
    /\ Read("pages", PAGES_CACHE, PAGES_CACHE.docs, f, script)
    /\ UNCHANGED <<now, world, POSTS_CACHE, MEDIA_CACHE, PAGES, ANSWER_CACHE, last, issued,
                   pc, loc>>

read_media(script) ==
  \E f \in {fetch_wp_media(MEDIA_CACHE, now, script)} :
    /\ MEDIA_CACHE' = f.cache
    /\ Read("media", MEDIA_CACHE, MEDIA_CACHE.imgs, f, script)
    /\ UNCHANGED <<now, world, POSTS_CACHE, PAGES_CACHE, PAGES, ANSWER_CACHE, last, issued,
                   pc, loc>>

NextCache ==
  \/ \E script \in CachePostScripts : fetch_wp_posts(script)
  \/ \E script \in CachePageScripts : fetch_wp_pages(script)
  \/ \E script \in MediaScripts : read_media(script)
  \/ Tick

SpecCache == InitCache /\ [][NextCache]_vars

(* dedupe_citations over the lists of at most MaxItems citations *)
MaxItems == 3

CitationItems ==
  [url : {<<>>, <<"a">>, <<"A", " ">>, <<" ">>}, title : {<<>>, <<"a">>, <<"b">>}]

SeqsUpTo(S, n) == UNION {[1..m -> S] : m \in 0..n}

InitDedupe ==
  /\ now = 0
  /\ AtRest
  /\ \E items \in SeqsUpTo(CitationItems, MaxItems) :
       util = Call("dedupe_citations", [items |-> items])

dedupe ==
  /\ util.fn = "dedupe_citations" /\ ~util.done
  /\ Return(dedupe_citations(util.args.items))

NextDedupe == dedupe

SpecDedupe == InitDedupe /\ [][NextDedupe]_vars

(* linkify_citations over the character strings of at most MaxLen          *)
(* characters: a string is the sequence of its characters, and an anchor   *)
(* element, which holds no bracket, is one element of the result           *)
MaxLen == 6
MaxCites == 2

Digit(i) == <<"1", "2", "3", "4", "5", "6", "7", "8", "9">>[i]

(* the literal "[i]" *)
Marker(i) == <<"[", Digit(i), "]">>

(* f'<sup class="cite"><a href="#src-{i}">{i}</a></sup>' *)
AnchorTag(i) ==
  "<sup class=\"cite\"><a href=\"#src-" \o Digit(i) \o "\">" \o Digit(i) \o "</a></sup>"

(* str.replace(old, new): the occurrences of old taken from the left,      *)
(* none overlapping another                                                *)
RECURSIVE str_replace(_, _, _)
str_replace(s, old, new) ==
  IF Len(s) < Len(old) THEN s
  ELSE IF SubSeq(s, 1, Len(old)) = old
       THEN new \o str_replace(SubSeq(s, Len(old) + 1, Len(s)), old, new)
       ELSE <<Head(s)>> \o str_replace(Tail(s), old, new)

(* "for i in range(1, len(citations) + 1): out = out.replace(...)" *)
RECURSIVE LinkifyFrom(_, _, _)
LinkifyFrom(out, i, n) ==
  IF i > n THEN out
  ELSE LinkifyFrom(str_replace(out, Marker(i), <<AnchorTag(i)>>), i + 1, n)

(* a variant whose loop stops one citation early *)
linkify_str_stops_early(html_str, n) ==
  IF n = 0 THEN html_str ELSE LinkifyFrom(html_str, 1, n - 1)

(* linkify_citations on a string, n the number of citations *)
linkify_str(html_str, n) ==
  IF n = 0 THEN html_str ELSE LinkifyFrom(html_str, 1, n)

HtmlChars == {"[", "]", "1", "2", "x"}

InitLinkify ==
  /\ now = 0
  /\ AtRest
  /\ \E html_str \in SeqsUpTo(HtmlChars, MaxLen), n \in 0..MaxCites :
       util = Call("linkify_citations", [html_str |-> html_str, n |-> n])

linkify ==
  /\ util.fn = "linkify_citations" /\ ~util.done
  /\ Return(linkify_str(util.args.html_str, util.args.n))

NextLinkify == linkify

SpecLinkify == InitLinkify /\ [][NextLinkify]_vars

(* chunk_text over the stripped texts of at most MaxLen characters *)
TextChars == {"a", "b", " ", "\n"}

InitChunk ==
  /\ now = 0
  /\ AtRest
  /\ \E text \in SeqsUpTo(TextChars, MaxLen) :
       /\ strip(text) = text
       /\ \E max_chars \in {MAX_CHARS, MAX_CHARS + 1}, overlap \in {0, OVERLAP} :
            util = Call("chunk_text",
                        [text |-> text, max_chars |-> max_chars, overlap |-> overlap])

chunk ==
  /\ util.fn = "chunk_text" /\ ~util.done
  /\ Return(chunk_text(util.args.text, util.args.max_chars, util.args.overlap))

NextChunk == chunk

SpecChunk == InitChunk /\ [][NextChunk]_vars

(* fetch_wp_posts run by the request threads one statement at a time: the  *)
(* cache test, the page requests that fill the local list, the two writes  *)
(* to the cache.  Every chunk carries the fetch that made it (the thread   *)
(* and the number of its call), and the source may answer any request in   *)
(* any way.                                                                *)
MaxRounds == 2

SourceAnswers == {Items(<<Post1>>), Items(<<>>), HttpError, InvalidPage}

GenIdle == [now |-> 0, out |-> <<>>, page |-> 0, ret |-> <<>>, round |-> 0]

InitGen ==
  /\ now = 0
  /\ world = Usual
  /\ POSTS_CACHE = [ts |-> 0, docs |-> <<>>]
  /\ PAGES_CACHE = [ts |-> 0, docs |-> <<>>]
  /\ MEDIA_CACHE = [ts |-> 0, imgs |-> <<>>]
  /\ PAGES = <<>>
  /\ ANSWER_CACHE = <<>>
  /\ last = NoLast
  /\ issued = [k \in Identities |-> NoIssue]
  /\ pc = [t \in Threads |-> "idle"]
  /\ loc = [t \in Threads |-> GenIdle]
  /\ util = NoCall

Others == <<world, PAGES_CACHE, MEDIA_CACHE, PAGES, ANSWER_CACHE, last, issued, util>>

(* the chunks of the items of one page, as the fetch gen made them *)
Tagged(items, gen) ==
  LET chunks == FlatMap(DocChunks, items)
  IN  [i \in 1..Len(chunks) |->
         [post_id |-> chunks[i].post_id, title |-> chunks[i].title, url |-> chunks[i].url,
          text_chunk |-> chunks[i].text_chunk, gen |-> gen]]

(* a variant that goes on filling the cached list *)
fresh_list_is_cached_list(cache) == cache.docs

(* "out = []" *)
fresh_list(cache) == <<>>

(* "now = time.time()" *)
fetch_begin(t) ==
  /\ pc[t] = "idle"
  /\ loc[t].round < MaxRounds
  /\ Goto(t, "test_docs", [GenIdle EXCEPT !.now = now, !.round = loc[t].round + 1])
  /\ UNCHANGED <<now, POSTS_CACHE, Others>>

(* "if POSTS_CACHE["docs"] and ..." *)
fetch_test_docs(t) ==
  /\ pc[t] = "test_docs"
  /\ IF POSTS_CACHE.docs # <<>>
     THEN Goto(t, "test_ts", loc[t])
     ELSE Goto(t, "page", [loc[t] EXCEPT !.out = fresh_list(POSTS_CACHE), !.page = 1])
  /\ UNCHANGED <<now, POSTS_CACHE, Others>>

(* "... and now - POSTS_CACHE["ts"] < TTL" *)
fetch_test_ts(t) ==
  /\ pc[t] = "test_ts"
  /\ IF loc[t].now - POSTS_CACHE.ts < TTL
     THEN Goto(t, "hit", loc[t])
     ELSE Goto(t, "page", [loc[t] EXCEPT !.out = fresh_list(POSTS_CACHE), !.page = 1])
  /\ UNCHANGED <<now, POSTS_CACHE, Others>>

(* "return POSTS_CACHE["docs"]" *)
fetch_hit(t) ==
  /\ pc[t] = "hit"
  /\ Goto(t, "returned", [loc[t] EXCEPT !.ret = POSTS_CACHE.docs])
  /\ UNCHANGED <<now, POSTS_CACHE, Others>>

(* one turn of the loop: the request for page loc[t].page is answered by r *)
fetch_page(t, r) ==
  /\ pc[t] = "page"
  /\ IF r.kind # "items" \/ r.items = <<>>
     THEN Goto(t, "write_ts", loc[t])
     ELSE LET out == loc[t].out \o Tagged(r.items, <<t, loc[t].round>>)
          IN  IF Len(r.items) < PER_PAGE \/ loc[t].page = MAX_PAGES
              THEN Goto(t, "write_ts", [loc[t] EXCEPT !.out = out])
              ELSE Goto(t, "page", [loc[t] EXCEPT !.out = out, !.page = @ + 1])
  /\ UNCHANGED <<now, POSTS_CACHE, Others>>

(* "POSTS_CACHE["ts"] = now" *)
fetch_write_ts(t) ==
  /\ pc[t] = "write_ts"
  /\ POSTS_CACHE' = [POSTS_CACHE EXCEPT !.ts = loc[t].now]
  /\ Goto(t, "write_docs", loc[t])
  /\ UNCHANGED <<now, Others>>

(* "POSTS_CACHE["docs"] = out; return out" *)
fetch_write_docs(t) ==
  /\ pc[t] = "write_docs"
  /\ POSTS_CACHE' = [POSTS_CACHE EXCEPT !.docs = loc[t].out]
  /\ Goto(t, "returned", [loc[t] EXCEPT !.ret = loc[t].out])
  /\ UNCHANGED <<now, Others>>

(* the caller has the snapshot; the thread is free for the next call *)
fetch_end(t) ==
  /\ pc[t] = "returned"
  /\ Goto(t, "idle", loc[t])
  /\ UNCHANGED <<now, POSTS_CACHE, Others>>

GenTick ==
  /\ now < MaxTime
  /\ now' = now + 1
  /\ UNCHANGED <<POSTS_CACHE, pc, loc, Others>>

NextGen ==
  \/ \E t \in Threads : fetch_begin(t)
  \/ \E t \in Threads : fetch_test_docs(t)
  \/ \E t \in Threads : fetch_test_ts(t)
  \/ \E t \in Threads : fetch_hit(t)
  \/ \E t \in Threads, r \in SourceAnswers : fetch_page(t, r)
  \/ \E t \in Threads : fetch_write_ts(t)
  \/ \E t \in Threads : fetch_write_docs(t)
  \/ \E t \in Threads : fetch_end(t)
  \/ GenTick

SpecGen == InitGen /\ [][NextGen]_vars

(* The page requests of one refresh: the loop of the fetchers, run over    *)
(* every script of MaxScript answers, with per_page and max_pages drawn    *)
MaxScript == 3

PageAnswers ==
  {Items(<<>>), Items(<<Post1>>), Items(<<Post1, Post3>>), HttpError, InvalidPage}

(* a variant that goes on after a page with fewer items than asked for *)
RECURSIVE fetch_requests_past_short_page(_, _, _, _)
fetch_requests_past_short_page(script, page, per_page, max_pages) ==
  IF page > max_pages THEN <<>>
  ELSE LET r == script[page] IN
       <<page>> \o (IF r.kind = "invalid_page" \/ r.kind = "error" \/ r.items = <<>>
                    THEN <<>>
                    ELSE fetch_requests_past_short_page(script, page + 1, per_page, max_pages))

(* the values of page with which http.get is called, in order *)
RECURSIVE fetch_requests(_, _, _, _)
fetch_requests(script, page, per_page, max_pages) ==
  IF page > max_pages THEN <<>>
  ELSE LET r == script[page] IN
       <<page>> \o (IF r.kind = "invalid_page" THEN <<>>
                    ELSE IF r.kind = "error" THEN <<>>
                    ELSE IF r.items = <<>> THEN <<>>
                    ELSE IF Len(r.items) < per_page THEN <<>>
                    ELSE fetch_requests(script, page + 1, per_page, max_pages))

InitFetch ==
  /\ now = 0
  /\ AtRest
  /\ \E script \in [1..MaxScript -> PageAnswers],
        per_page \in {PER_PAGE, PER_PAGE + 1}, max_pages \in 1..MaxScript :
       util = Call("fetch", [script |-> script, per_page |-> per_page,
                             max_pages |-> max_pages])

refresh ==
  /\ util.fn = "fetch" /\ ~util.done
  /\ Return([requests |-> fetch_requests(util.args.script, 1, util.args.per_page,
                                         util.args.max_pages),
             out |-> FetchLoop(DocChunks, util.args.script, 1, util.args.per_page,
                               util.args.max_pages)])

NextFetch == refresh

SpecFetch == InitFetch /\ [][NextFetch]_vars

(* _cache_key over pairs of requests whose fields may hold the character   *)
(* "|" that joins them                                                     *)
KeyRequests ==
  [question : {<<"a">>, <<"A", " ">>, <<"a", "|", "g">>},
   layout : {<<"g">>, <<"g", "|", "g">>},
   include_citations : BOOLEAN,
   brand_class : {<<"x">>, <<"x", "|", "p">>},
   primary : {<<"p">>, <<"p", "|", "p">>}]

InitKey ==
  /\ now = 0
  /\ AtRest
  /\ \E one \in KeyRequests, other \in KeyRequests :
       util = Call("cache_key", [one |-> one, other |-> other])

fingerprint ==
  /\ util.fn = "cache_key" /\ ~util.done
  /\ Return([one |-> KeyOf(util.args.one), other |-> KeyOf(util.args.other)])

NextKey == fingerprint

SpecKey == InitKey /\ [][NextKey]_vars

----------------------------------------------------------------------------
(* Properties *)

ComposeStep == last'.op = "compose"

Stored(id) == id \in DOMAIN PAGES

Memoized(key, id) == key \in DOMAIN ANSWER_CACHE /\ ANSWER_CACHE[key].page_id = id

(* C1, as stated: of any two compose calls of one request identity (same   *)
(* normalized question, layout, include_citations, brand_class, primary),  *)
(* the second issued within ANSWER_TTL_SEC of the first, both return the   *)
(* same page id.                                                           *)
C1_AnyTwoCalls ==
  [][ (/\ ComposeStep
       /\ last'.id # 0
       /\ issued[Identity(last'.req)].id # 0
       /\ now - issued[Identity(last'.req)].at <= ANSWER_TTL_SEC)
      => last'.id = issued[Identity(last'.req)].id ]_vars

(* C1, amended: if a compose call missed the memo and generated page p,    *)
(* every compose call of the same request identity issued within           *)
(* ANSWER_TTL_SEC of that generating call returns p.                       *)
C1_SameIdWithinTtlOfGeneration ==
  [][ (/\ ComposeStep
       /\ issued[Identity(last'.req)].gen_id # 0
       /\ now - issued[Identity(last'.req)].gen_at <= ANSWER_TTL_SEC)
      => last'.id = issued[Identity(last'.req)].gen_id ]_vars

(* a later call, with another spelling of the question, got the id of the  *)
(* page an earlier call generated                                          *)
C1_Witness ==
  /\ last.op = "compose"
  /\ last.outcome = "hit"
  /\ last.id = issued[Identity(last.req)].gen_id
  /\ now > issued[Identity(last.req)].gen_at
  /\ Stored(last.id)
  /\ PAGES[last.id].html.trace_id # last.req.question

(* C2: a compose call that finds a live memo entry whose page is stored    *)
(* returns that page's id and title, calls neither the content source nor  *)
(* the reranker nor the planner, leaves the page store and the three       *)
(* content caches as they were, and changes the answer cache only by       *)
(* dropping the entries older than ANSWER_TTL_SEC.                         *)
C2_HitIsPure ==
  [][ (ComposeStep /\ last'.memo = "live")
      => /\ last'.outcome = "hit"
         /\ last'.calls = {}
         /\ last'.id = ANSWER_CACHE[last'.key].page_id
         /\ last'.id \in DOMAIN PAGES
         /\ last'.title = PAGES[last'.id].title
         /\ PAGES' = PAGES
         /\ POSTS_CACHE' = POSTS_CACHE
         /\ PAGES_CACHE' = PAGES_CACHE
         /\ MEDIA_CACHE' = MEDIA_CACHE
         /\ DOMAIN ANSWER_CACHE' =
              {k \in DOMAIN ANSWER_CACHE : now - ANSWER_CACHE[k].ts <= ANSWER_TTL_SEC}
         /\ \A k \in DOMAIN ANSWER_CACHE' : ANSWER_CACHE'[k] = ANSWER_CACHE[k] ]_vars

(* a hit at a time when the memo entry is older than the instant it was    *)
(* written and another page is in the store                                *)
C2_Witness ==
  /\ last.op = "compose"
  /\ last.outcome = "hit"
  /\ now > ANSWER_CACHE[last.key].ts
  /\ Cardinality(DOMAIN PAGES) > 1

(* C3: a compose call whose memo entry is absent, older than the answer    *)
(* TTL or pointing to a page that is not stored does not raise, generates  *)
(* and stores a page, and returns an id that is a key of the page store.   *)
C3_MissNeverFails ==
  (last.op = "compose" /\ last.memo \in {"absent", "expired", "dangling"})
  => /\ last.outcome \notin {"error", "hit"}
     /\ Stored(last.id)

(* C4: a view or download of a page id whose stored page is older than     *)
(* PAGES_TTL_SEC answers not-found and serves no HTML; after every view,   *)
(* download and save no page older than PAGES_TTL_SEC is in the store.     *)
C4_ExpiredPageNeverServed ==
  /\ (last.op \in {"view", "download"} /\ last.age > PAGES_TTL_SEC)
       => (last.outcome = "not_found" /\ last.served = -1)
  /\ (\/ last.op \in {"view", "download"}
      \/ last.op = "compose" /\ last.outcome \notin {"hit", "error"})
       => \A p \in DOMAIN PAGES : now - PAGES[p].ts <= PAGES_TTL_SEC

C4_Witness ==
  /\ last.op \in {"view", "download"}
  /\ last.age > PAGES_TTL_SEC
  /\ last.outcome = "not_found"

(* C5: the memo fast path of compose never returns a page older than       *)
(* PAGES_TTL_SEC: a call whose memo entry points to such a page is a miss. *)
C5_HitPageIsLive ==
  /\ (last.op = "compose" /\ last.outcome = "hit")
       => (last.age >= 0 /\ last.age <= PAGES_TTL_SEC)
  /\ (last.op = "compose" /\ last.age > PAGES_TTL_SEC) => last.outcome # "hit"

(* a compose call found its memo entry pointing to a page that was still   *)
(* in the store and older than the page TTL, and generated a new page      *)
C5_Witness ==
  /\ last.op = "compose"
  /\ last.age > PAGES_TTL_SEC
  /\ last.memo = "expired"
  /\ last.outcome \notin {"hit", "error"}

(* C6: every compose call ends with a result and a stored page; a planner  *)
(* output that cannot be parsed, or that parses to something that is no    *)
(* content plan, is recovered through the single-source passthrough plan.  *)
C6_ComposeAlwaysAnswers ==
  last.op = "compose"
  => /\ last.outcome # "error"
     /\ Stored(last.id)
     /\ last.planner \in {"exception", "malformed"} => last.outcome = "passthrough"

(* C7: when the ranking engine returns no sources, compose on a cold memo  *)
(* calls no planner, stores and returns the page titled "No sources        *)
(* available", with no sources footer and no image, and memoizes it.       *)
C7_NoSourcesPage ==
  (last.op = "compose" /\ last.nhits = 0)
  => /\ last.outcome = "no_sources"
     /\ "planner" \notin last.calls
     /\ last.title = <<"No sources available">>
     /\ Stored(last.id)
     /\ PAGES[last.id].title = <<"No sources available">>
     /\ PAGES[last.id].html.title = <<"No sources available">>
     /\ PAGES[last.id].html.article.footer = <<>>
     /\ PAGES[last.id].html.article.hero = <<>>
     /\ Memoized(last.key, last.id)

C7_Witness ==
  /\ last.op = "compose"
  /\ last.nhits = 0
  /\ last.outcome = "no_sources"
  /\ Memoized(last.key, last.id)

(* C8: with at least one source, a top_score below RERANK_THRESHOLD gives  *)
(* the low-confidence page, whose title is not the no-sources title,       *)
(* stored and memoized, with no planner call; a top_score at or above the  *)
(* threshold does not give the low-confidence page.                        *)
C8_ConfidenceGate ==
  (last.op = "compose" /\ last.nhits > 0)
  => IF last.top_score < RERANK_THRESHOLD
     THEN /\ last.outcome = "low_confidence"
          /\ last.title = <<"We couldn't find a confident answer">>
          /\ last.title # <<"No sources available">>
          /\ "planner" \notin last.calls
          /\ Stored(last.id)
          /\ PAGES[last.id].title = last.title
          /\ Memoized(last.key, last.id)
     ELSE /\ last.outcome # "low_confidence"
          /\ last.title # <<"We couldn't find a confident answer">>

C8_Witness ==
  /\ last.op = "compose"
  /\ last.nhits > 0
  /\ last.top_score < RERANK_THRESHOLD
  /\ last.outcome = "low_confidence"

(* the other side of the gate: a score equal to the threshold passes *)
C8_WitnessAtThreshold ==
  /\ last.op = "compose"
  /\ last.top_score = RERANK_THRESHOLD
  /\ last.outcome = "plan"

(* C9: when the confidence probe raises, top_score keeps its default 1.0   *)
(* and compose does not take the low-confidence branch: it goes on to the  *)
(* planner.                                                                *)
C9_ProbeFailurePasses ==
  (last.op = "compose" /\ last.probe = "raise")
  => /\ last.top_score = 100
     /\ last.outcome # "low_confidence"
     /\ "planner" \in last.calls

C9_Witness ==
  /\ last.op = "compose"
  /\ last.probe = "raise"
  /\ last.outcome \in {"plan", "passthrough"}
  /\ Stored(last.id)

(* C10: when two compose calls of one fingerprint, each finding the answer *)
(* cache cold for it, run concurrently, then in every interleaving both    *)
(* end without error, each returns the id of a page that is stored and not *)
(* older than PAGES_TTL_SEC, and the memo entry of the fingerprint points  *)
(* to one of the two returned pages.                                       *)
C10_ConcurrentComposesComplete ==
  (/\ \A t \in Threads : pc[t] \in {"done", "failed"} /\ loc[t].memo # "live"
   /\ \A t, u \in Threads : KeyOf(loc[t].req) = KeyOf(loc[u].req))
  => /\ \A t \in Threads :
          /\ pc[t] = "done"
          /\ loc[t].outcome # "error"
          /\ Stored(loc[t].id)
          /\ now - PAGES[loc[t].id].ts <= PAGES_TTL_SEC
     /\ \E t \in Threads : Memoized(KeyOf(loc[t].req), loc[t].id)

(* the documents of the chunks a search returned, in order *)
Returned == [i \in 1..Len(util.ret) |-> util.ret[i].post_id]

(* C11: search(query, k) returns at most k results and no chunk of the     *)
(* corpus snapshot twice, whatever list of results the reranker returns.   *)
C11_AtMostKNoDuplicates ==
  (util.fn = "search_docs" /\ util.done)
  => /\ Len(util.ret) <= util.args.k
     /\ \A i, j \in 1..Len(util.ret) : i # j => Returned[i] # Returned[j]

(* C12: when the reranker raises, search over a non-empty corpus returns   *)
(* min(k, number of candidates) results, the chunks of highest lexical     *)
(* score in descending score order, equal scores in corpus order; over an  *)
(* empty corpus it returns the empty list.                                 *)
C12_RerankFailureKeepsLexicalOrder ==
  (util.fn = "search_docs" /\ util.done /\ util.args.rr = Raise)
  => LET n      == util.args.n
         score  == util.args.scores
         Before(a, b) == score[a] > score[b] \/ (score[a] = score[b] /\ a < b)
     IN  /\ Len(util.ret) = Min(util.args.k, Min(Max(5 * util.args.k, util.args.k), n))
         /\ n = 0 => util.ret = <<>>
         /\ \A i \in 1..Len(util.ret) : Returned[i] \in 1..n
         /\ \A i, j \in 1..Len(util.ret) : i < j => Before(Returned[i], Returned[j])
         /\ \A i \in 1..Len(util.ret) :
              \A d \in (1..n) \ Range(Returned) : Before(Returned[i], d)

(* the reranker raised and the lexical order differs from the corpus order *)
C12_Witness ==
  /\ util.fn = "search_docs" /\ util.done /\ util.args.rr = Raise
  /\ util.args.n = MaxDocs /\ util.args.k = 2
  /\ Len(util.ret) = 2
  /\ Returned[1] > 1

(* the snapshot of the partition the last read was of *)
Snapshot ==
  IF util.fn = "posts" THEN POSTS_CACHE.docs
  ELSE IF util.fn = "pages" THEN PAGES_CACHE.docs
  ELSE MEDIA_CACHE.imgs

CacheRead == util.fn \in {"posts", "pages", "media"}

(* C13: a read of a partition less than TTL after the partition's last     *)
(* refresh returns the cached snapshot, whatever it holds, and does not    *)
(* contact the content source; a read at or after TTL re-fetches.          *)
C13_ReadWithinTtlIsCached ==
  CacheRead
  => /\ util.args.t - util.args.ts < TTL
          => (~util.ret.fetched /\ util.ret.out = util.args.snapshot)
     /\ util.args.t - util.args.ts >= TTL => util.ret.fetched

(* C14: a read whose re-fetch fails returns the previous snapshot (the     *)
(* empty result when there was none) and leaves the previous snapshot in   *)
(* the cache.                                                              *)
C14_FailedRefetchKeepsSnapshot ==
  (CacheRead /\ util.ret.fetched /\ util.args.failed)
  => /\ util.ret.out = util.args.snapshot
     /\ Snapshot = util.args.snapshot

(* C15: when a compose call that missed the memo returns id p, the page    *)
(* stored under p carries p, and not the placeholder, in its canonical URL *)
(* and its download link, and its created_at is the time of the first      *)
(* write; the placeholder is never a key of the page store and is never    *)
(* returned as an id.                                                      *)
C15_PlaceholderNeverLeaks ==
  /\ TMP \notin DOMAIN PAGES
  /\ \A p \in DOMAIN PAGES :
       PAGES[p].html.canonical = p /\ PAGES[p].html.download = p
  /\ (last.op = "compose" /\ last.outcome \notin {"hit", "error"})
       => /\ last.id # TMP
          /\ Stored(last.id)
          /\ PAGES[last.id].html.canonical = last.id
          /\ PAGES[last.id].html.download = last.id
          /\ PAGES[last.id].html.canonical # TMP
          /\ PAGES[last.id].ts = now

(* a compose call generated a page from a plan and returned its id *)
C15_Witness ==
  /\ last.op = "compose"
  /\ last.outcome = "plan"
  /\ Stored(last.id)
  /\ PAGES[last.id].html.canonical = last.id

(* the inline texts and the block texts of a stored article *)
ArticleWords(a) ==
  UNION ({Range(a.title), Range(a.summary)}
           \cup {Range(a.toc[i]) : i \in 1..Len(a.toc)}
           \cup {Range(a.sections[i].id) : i \in 1..Len(a.sections)}
           \cup {Range(a.sections[i].heading) : i \in 1..Len(a.sections)})

ArticleTokens(a) ==
  UNION { UNION ({Range(a.sections[i].paragraphs[j]) :
                    j \in 1..Len(a.sections[i].paragraphs)}
                   \cup {Range(a.sections[i].bullets[j]) :
                           j \in 1..Len(a.sections[i].bullets)})
          : i \in 1..Len(a.sections) }

ArticleIsClean(a) ==
  /\ "<script>" \notin ArticleWords(a)
  /\ \A tk \in ArticleTokens(a) : tk.k # "script"

(* C16: no planner text reaches the HTML of a stored page without having   *)
(* passed through sanitize_html: neither the article nor the head of the   *)
(* page carries a script element of the plan.                              *)
C16_PlannerTextIsSanitized ==
  \A p \in DOMAIN PAGES :
    /\ ArticleIsClean(PAGES[p].html.article)
    /\ "<script>" \notin Range(PAGES[p].html.title)

(* C20: in every stored page every citation anchor "#src-i" that citation  *)
(* linking produced has its footer entry "src-i" in the same page.         *)
C20_AnchorsHaveTargets ==
  \A p \in DOMAIN PAGES :
    \A tk \in ArticleTokens(PAGES[p].html.article) :
      tk.k = "anchor" => tk.v \in Range(PAGES[p].html.article.footer)

(* the normalized key of a citation: its url, or its title when it has no  *)
(* url, trimmed and lower-cased                                            *)
CiteKey(c) == lower(strip(IF c.url # <<>> THEN c.url ELSE c.title))

(* C19: dedupe_citations returns a subsequence of its input in which no    *)
(* two items have the same normalized key, the item kept for a key is the  *)
(* first of the input with that key, every non-empty key of the input      *)
(* appears exactly once, and deduplicating the result changes nothing.     *)
C19_DedupeKeepsFirstOfEachKey ==
  (util.fn = "dedupe_citations" /\ util.done)
  => LET items == util.args.items
         out   == util.ret
         n     == Len(items)
         m     == Len(out)
         First(key) == CHOOSE j \in 1..n :
                         CiteKey(items[j]) = key /\ \A h \in 1..(j - 1) : CiteKey(items[h]) # key
     IN  /\ m <= n
         /\ \E f \in [1..m -> 1..n] :
              /\ \A i, j \in 1..m : i < j => f[i] < f[j]
              /\ \A i \in 1..m : out[i] = items[f[i]]
         /\ \A i, j \in 1..m : i # j => CiteKey(out[i]) # CiteKey(out[j])
         /\ \A i \in 1..m : out[i] = items[First(CiteKey(out[i]))]
         /\ \A j \in 1..n :
              CiteKey(items[j]) # <<>>
                => Cardinality({i \in 1..m : CiteKey(out[i]) = CiteKey(items[j])}) = 1
         /\ dedupe_citations(out) = out

(* two citations whose urls differ only in case and trailing blank, and a  *)
(* citation known by its title, went in; the first and the last came out   *)
C19_Witness ==
  /\ util.fn = "dedupe_citations" /\ util.done
  /\ Len(util.args.items) = 3
  /\ util.args.items[1].url = <<"a">>
  /\ util.args.items[2].url = <<"A", " ">>
  /\ util.args.items[3] = [url |-> <<>>, title |-> <<"b">>]
  /\ util.ret = <<util.args.items[1], util.args.items[3]>>

(* the positions of s at which the literal "[i]" stands *)
MarkerAt(s, i) == {p \in 1..(Len(s) - 2) : SubSeq(s, p, p + 2) = Marker(i)}

(* the string with every anchor element of citations 1..n written back as  *)
(* the marker it stands for                                                *)
RECURSIVE Unlink(_, _)
Unlink(s, n) ==
  IF s = <<>> THEN <<>>
  ELSE (IF \E i \in 1..n : Head(s) = AnchorTag(i)
        THEN Marker(CHOOSE i \in 1..n : Head(s) = AnchorTag(i))
        ELSE <<Head(s)>>) \o Unlink(Tail(s), n)

(* C18: linkify_citations with no citation returns the HTML unchanged;     *)
(* with n >= 1 citations no literal "[i]" with 1 <= i <= n is left, each   *)
(* one has become the anchor whose href is "#src-i", and everything else,  *)
(* markers of other numbers included, stands as it stood.                  *)
C18_LinkifyReplacesMarkersOnly ==
  (util.fn = "linkify_citations" /\ util.done)
  => LET html_str == util.args.html_str
         n        == util.args.n
         out      == util.ret
     IN  /\ n = 0 => out = html_str
         /\ \A i \in 1..n : MarkerAt(out, i) = {}
         /\ \A i \in 1..n :
              Cardinality({p \in 1..Len(out) : out[p] = AnchorTag(i)})
                = Cardinality(MarkerAt(html_str, i))
         /\ Unlink(out, n) = html_str

(* "[1][2]" with one citation: the first marker is an anchor, the second   *)
(* is untouched                                                            *)
C18_Witness ==
  /\ util.fn = "linkify_citations" /\ util.done
  /\ util.args.html_str = <<"[", "1", "]", "[", "2", "]">>
  /\ util.args.n = 1
  /\ util.ret = <<"<sup class=\"cite\"><a href=\"#src-1\">1</a></sup>", "[", "2", "]">>

(* the chunks put end to end, chunk i without its first drop[i] characters *)
RECURSIVE Reassemble(_, _, _)
Reassemble(chunks, drop, i) ==
  IF i > Len(chunks) THEN <<>>
  ELSE SubSeq(chunks[i], drop[i] + 1, Len(chunks[i])) \o Reassemble(chunks, drop, i + 1)

(* C17: the chunks of a stripped text, put end to end after dropping from  *)
(* each chunk the part that overlaps the previous one (at most overlap     *)
(* characters, none from the first), give the text again.                  *)
C17_ChunksReassemble ==
  (util.fn = "chunk_text" /\ util.done)
  => \E drop \in [1..Len(util.ret) -> 0..util.args.overlap] :
       /\ \A i \in 1..Len(util.ret) :
            drop[i] <= Len(util.ret[i]) /\ (i = 1 => drop[i] = 0)
       /\ Reassemble(util.ret, drop, 1) = util.args.text

(* C21: the windows of a text longer than max_chars overlap: every window  *)
(* after the first starts overlap characters before the end of the one     *)
(* before it, and no window is longer than max_chars.                      *)
C21_WindowsOverlap ==
  (util.fn = "chunk_text" /\ util.done)
  => LET w == chunk_windows(util.args.text, util.args.max_chars, util.args.overlap)
     IN  /\ \A k \in 1..Len(w) : w[k].end - w[k].i <= util.args.max_chars
         /\ \A k \in 2..Len(w) : w[k].i = w[k - 1].end - util.args.overlap

(* C22: the media snapshot of the content cache is empty or is the list    *)
(* the fetch produced (the same items, with the same fields, in the same   *)
(* order), whatever compose calls have run.                                *)
C22_MediaSnapshotUnchanged ==
  MEDIA_CACHE.imgs \in {<<>>, FetchLoop(MediaImgs, world.media, 1, PER_PAGE, MAX_PAGES)}

(* the chunks of a snapshot were all made by one fetch *)
OneGeneration(docs) == \A i, j \in 1..Len(docs) : docs[i].gen = docs[j].gen

(* C23: the snapshot a read of the posts partition returns, and the one    *)
(* the cache holds, consist of the chunks of a single fetch, however the   *)
(* reads and refreshes of the two threads interleave.                      *)
C23_SnapshotOfOneFetch ==
  /\ OneGeneration(POSTS_CACHE.docs)
  /\ \A t \in Threads : pc[t] = "returned" => OneGeneration(loc[t].ret)

(* thread 1 was returned the two chunks thread 2 fetched earlier, while    *)
(* thread 2 is in the middle of its next refresh with a chunk collected    *)
C23_Witness ==
  /\ pc[1] = "returned" /\ Len(loc[1].ret) = 2
  /\ \A i \in 1..2 : loc[1].ret[i].gen = <<2, 1>>
  /\ pc[2] = "page" /\ loc[2].round = 2 /\ loc[2].out # <<>>

(* C24: every save stores its page under an id that is not a key of the    *)
(* page store as the sweep of the save left it, so no stored page is       *)
(* replaced and the store grows by exactly one page.                       *)
C24_SaveUsesNewId ==
  [][ (last'.op = "compose" /\ last'.outcome \notin {"hit", "error"})
      => /\ last'.id \notin DOMAIN cleanup_pages(PAGES, now)
         /\ Cardinality(DOMAIN PAGES')
              = Cardinality(DOMAIN cleanup_pages(PAGES, now)) + 1 ]_vars

(* C25: a compose call that misses the memo ends as no-sources,            *)
(* low-confidence, plan or passthrough; it adds exactly one page to the    *)
(* page store, and the memo entry of its fingerprint points to that page   *)
(* with a timestamp not earlier than the page's.                           *)
C25_MissStoresAndMemoizesOnePage ==
  [][ (last'.op = "compose" /\ last'.outcome # "hit")
      => /\ last'.outcome \in {"no_sources", "low_confidence", "plan", "passthrough"}
         /\ DOMAIN PAGES' \ DOMAIN cleanup_pages(PAGES, now) = {last'.id}
         /\ last'.key \in DOMAIN ANSWER_CACHE'
         /\ ANSWER_CACHE'[last'.key].page_id = last'.id
         /\ ANSWER_CACHE'[last'.key].ts >= PAGES'[last'.id].ts ]_vars

(* the answer r ends a refresh that asked for per_page items *)
LastPage(r, per_page) ==
  r.kind # "items" \/ r.items = <<>> \/ Len(r.items) < per_page

(* C26: a refresh requests the pages 1, 2, ... in order, requests nothing  *)
(* after the first page that fails, is out of range, is empty or is short, *)
(* stops for no other reason before max_pages, and never makes more than   *)
(* max_pages requests.                                                     *)
C26_PaginationStops ==
  (util.fn = "fetch" /\ util.done)
  => LET requests == util.ret.requests
         m        == Len(requests)
         script   == util.args.script
     IN  /\ m >= 1 /\ m <= util.args.max_pages
         /\ \A i \in 1..m : requests[i] = i
         /\ \A i \in 1..(m - 1) : ~LastPage(script[i], util.args.per_page)
         /\ m < util.args.max_pages => LastPage(script[m], util.args.per_page)

(* two full pages would have followed, but the second page was short: two  *)
(* requests, and what the two pages held is the result                     *)
C26_Witness ==
  /\ util.fn = "fetch" /\ util.done
  /\ util.args.per_page = 2 /\ util.args.max_pages = 3
  /\ util.args.script = <<Items(<<Post1, Post3>>), Items(<<Post1>>), Items(<<Post1, Post3>>)>>
  /\ util.ret.requests = <<1, 2>>
  /\ util.ret.out = DocChunks(Post1) \o DocChunks(Post3) \o DocChunks(Post1)

(* the five values a fingerprint stands for *)
FiveTuple(req) ==
  <<normalize_question(req.question), req.layout, req.include_citations,
    req.brand_class, req.primary>>

(* C27: two requests whose fingerprints are taken from the same string     *)
(* have the same normalized question, layout, include_citations,           *)
(* brand_class and primary color, also when a field holds a "|".           *)
C27_KeySeparatesRequests ==
  (util.fn = "cache_key" /\ util.done /\ util.ret.one = util.ret.other)
  => FiveTuple(util.args.one) = FiveTuple(util.args.other)

====
